---- MODULE Spec2Model ----
(***************************************************************************)
(* A model of fetch_docs: the crawl of one documentation manual            *)
(* (src/src/fetch_docs/fetch.py).                                          *)
(*                                                                         *)
(* Strings are modelled as sequences of tokens: a URL or an href is the    *)
(* sequence of its separators ("/", "?", "#"), its scheme ("https:") and   *)
(* the words between them, so that startswith, substring search, urlparse, *)
(* urljoin, strip('/') and Path.name are computed on the text as the code  *)
(* computes them.  An HTML document is the sequence of the href values of  *)
(* its anchors that carry an href (soup.find_all('a', href=True)).         *)
(***************************************************************************)
EXTENDS Integers, Sequences, FiniteSets, TLC

\* fetch.py lines 14-15; the second is the size of the page semaphore (line 177).
MAX_CONCURRENT_CONNECTIONS == 8

MAX_CONNECTIONS_PER_HOST == 4

\* Bounds of the model: anchors in the seed page; anchors in any other page.
MaxAnchors == 4

MaxPageAnchors == 1

\* Anchors in a document the HTML Processor is called with on its own.
MaxProcessorAnchors == 2

----------------------------------------------------------------------------
(* Optional[str]: None, or a string (a token sequence, "" being << >>).    *)

\* A task result is one more kind, "exc": an exception object.
None == [kind |-> "none", val |-> << >>]

Some(s) == [kind |-> "str", val |-> s]

\* Python truthiness of an Optional[str]: None and "" are falsy.
Truthy(o) == o.kind = "str" /\ o.val # << >>

----------------------------------------------------------------------------
(* Text helpers on token sequences.                                        *)

\* The index of the first token of s that lies in set, Len(s)+1 when none.
FirstIn(s, set) ==
    IF \E i \in 1..Len(s) : s[i] \in set
    THEN CHOOSE i \in 1..Len(s) : s[i] \in set /\ \A j \in 1..(i-1) : s[j] \notin set
    ELSE Len(s) + 1

\* The index of the last token of s that lies in set, 0 when none.
LastIn(s, set) ==
    IF \E i \in 1..Len(s) : s[i] \in set
    THEN CHOOSE i \in 1..Len(s) : s[i] \in set /\ \A j \in (i+1)..Len(s) : s[j] \notin set
    ELSE 0

\* s[from..], the empty sequence when from is past the end.
Drop(s, from) == SubSeq(s, from, Len(s))

\* str.lower(), on the tokens of the model that hold upper-case letters.
Lower(tok) == IF tok = "The-Omarchy-Manual" THEN "the-omarchy-manual" ELSE tok

\* path.strip('/'): leading and trailing slashes removed.
StripSlashes(p) ==
    LET nonslash == {i \in 1..Len(p) : p[i] # "/"}
    IN  IF nonslash = {} THEN << >>
        ELSE SubSeq(p, CHOOSE i \in nonslash : \A j \in nonslash : i <= j,
                       CHOOSE i \in nonslash : \A j \in nonslash : i >= j)

\* PathName, were the name what follows the last "/" of the text.
PathName_raw(p) == Drop(p, LastIn(p, {"/"}) + 1)

\* Path(path).name: pathlib drops the empty segments and the "." segments of
\* the path, and the name is the last segment left ("" when none is left).
RECURSIVE PathName(_)
PathName(p) ==
    LET name_from(cut) ==
            IF Drop(p, cut + 1) \in {<< >>, <<".">>}
            THEN PathName(SubSeq(p, 1, cut - 1))
            ELSE Drop(p, cut + 1)
    IN  IF p = << >> THEN << >> ELSE name_from(LastIn(p, {"/"}))

----------------------------------------------------------------------------
(* urllib.parse, on token sequences.                                       *)

Schemes == {"https:"}

\* urlparse(url): scheme, netloc, path, query, fragment; ok = FALSE when it
\* raises ValueError (a netloc with one bracket and not the other).  As
\* urlsplit does, the scheme is split off first, then the netloc that
\* follows "//", then the fragment after the first "#", then the query
\* after the first "?"; what is left is the path.
urlparse(url) ==
    LET Balanced(netloc) ==
            (\E i \in 1..Len(netloc) : netloc[i] = "[")
                <=> (\E i \in 1..Len(netloc) : netloc[i] = "]")
        SplitQuery(scheme, netloc, rest, fragment, qAt) ==
            [ok |-> Balanced(netloc), scheme |-> scheme, netloc |-> netloc,
             path |-> SubSeq(rest, 1, qAt - 1), query |-> Drop(rest, qAt + 1),
             fragment |-> fragment]
        SplitFragment(scheme, netloc, rest, fAt) ==
            SplitQuery(scheme, netloc, SubSeq(rest, 1, fAt - 1), Drop(rest, fAt + 1),
                       FirstIn(SubSeq(rest, 1, fAt - 1), {"?"}))
        SplitNetloc(scheme, rest, nEnd) ==
            IF Len(rest) >= 2 /\ rest[1] = "/" /\ rest[2] = "/"
            THEN SplitFragment(scheme, SubSeq(rest, 3, nEnd - 1), Drop(rest, nEnd),
                               FirstIn(Drop(rest, nEnd), {"#"}))
            ELSE SplitFragment(scheme, << >>, rest, FirstIn(rest, {"#"}))
        SplitScheme(scheme, rest) ==
            SplitNetloc(scheme, rest, 2 + FirstIn(Drop(rest, 3), {"/", "?", "#"}))
    IN  IF Len(url) > 0 /\ url[1] \in Schemes
        THEN SplitScheme(<<url[1]>>, Tail(url))
        ELSE SplitScheme(<< >>, url)

\* urlunparse of the five parts.
urlunparse(scheme, netloc, path, query, fragment) ==
    scheme \o (IF netloc # << >> THEN <<"/", "/">> \o netloc ELSE << >>) \o path
           \o (IF query # << >> THEN <<"?">> \o query ELSE << >>)
           \o (IF fragment # << >> THEN <<"#">> \o fragment ELSE << >>)

\* urljoin(base, url) for a url that starts with "/" (the only urls
\* _process_elements joins): a url with its own netloc ("//host/...") keeps
\* it and takes the base's scheme; a root-relative url takes the base's
\* scheme and netloc.  ok = FALSE when urlparse raises.
urljoin(base, url) ==
    LET join(b, u) ==
            IF ~b.ok \/ ~u.ok THEN [ok |-> FALSE, url |-> << >>]
            ELSE IF u.scheme # << >> /\ u.scheme # b.scheme
                 THEN [ok |-> TRUE, url |-> url]
            ELSE [ok |-> TRUE,
                  url |-> urlunparse(b.scheme,
                                     IF u.netloc # << >> THEN u.netloc ELSE b.netloc,
                                     u.path, u.query, u.fragment)]
    IN  join(urlparse(base), urlparse(url))

----------------------------------------------------------------------------
(* The Filename Mapper.                                                    *)

TOC_MD == <<"toc", ".md">>

MANUAL_ROOT_PATH == <<"2", "/", "the-omarchy-manual">>

\* convert_url_to_filename, were the file named by the first segment of the
\* path instead of the last.
convert_url_to_filename_first(url) ==
    LET name_of(path) ==
            IF path # << >> THEN [ok |-> TRUE, file |-> Some(<<path[1], ".md">>)]
            ELSE [ok |-> TRUE, file |-> None]
    IN  name_of(StripSlashes(urlparse(url).path))

\* convert_url_to_filename: ok = FALSE when urlparse raises; otherwise file
\* is None for a path that strips to empty, toc.md for the manual root and
\* the last path segment plus ".md" for any other path.
convert_url_to_filename(url) ==
    LET name_of(ok, path) ==
            IF ~ok THEN [ok |-> FALSE, file |-> None]
            ELSE IF path # << >>
                 THEN [ok |-> TRUE,
                       file |-> IF path = MANUAL_ROOT_PATH THEN Some(TOC_MD)
                                ELSE Some(PathName(path) \o <<".md">>)]
            ELSE [ok |-> TRUE, file |-> None]
        strip(parsed) == name_of(parsed.ok, StripSlashes(parsed.path))
    IN  strip(urlparse(url))

----------------------------------------------------------------------------
(* The HTML Processor.                                                     *)

\* IsInternalHref, were the test of the leading '/' missing.
IsInternalHref_anywhere(href) ==
    \E i \in 1..Len(href) : Lower(href[i]) = "the-omarchy-manual"

\* Line 60: href.startswith('/') and 'the-omarchy-manual' in href.lower().
IsInternalHref(href) ==
    /\ Len(href) > 0
    /\ href[1] = "/"
    /\ \E i \in 1..Len(href) : Lower(href[i]) = "the-omarchy-manual"

\* cached_urljoin, were the memo to hand back the url of its key.
cached_urljoin_unjoined(base, url) == [ok |-> TRUE, url |-> url]

\* _cached_urljoin: the memo returns what urljoin returned for the same key.
cached_urljoin(base, url) == urljoin(base, url)

\* One iteration of the loop of _process_elements (lines 58-68): the links
\* the anchor adds and the href it ends with; ok = FALSE when it raises.
process_anchor(base, href) ==
    LET rewrite(full_url, local_filename) ==
            IF ~full_url.ok THEN [ok |-> FALSE, links |-> {}, href |-> href]
            ELSE IF href = <<"/">> \o MANUAL_ROOT_PATH
                 THEN [ok |-> TRUE, links |-> {full_url.url}, href |-> TOC_MD]
            ELSE IF ~local_filename.ok THEN [ok |-> FALSE, links |-> {}, href |-> href]
            ELSE [ok |-> TRUE, links |-> {full_url.url},
                  href |-> IF Truthy(local_filename.file)
                           THEN local_filename.file.val ELSE href]
    IN  IF ~IsInternalHref(href) THEN [ok |-> TRUE, links |-> {}, href |-> href]
        ELSE rewrite(cached_urljoin(base, href), convert_url_to_filename(href))

\* parse_and_extract / _process_elements (lines 39-68): the loop body runs
\* for the anchors in document order; an exception in any iteration leaves
\* the function (ok = FALSE), otherwise the links added make the discovered
\* set and the hrefs, in document order, the rewritten document.
RECURSIVE parse_and_extract(_, _)
parse_and_extract(base, anchors) ==
    LET combine(a, rest) ==
            IF ~a.ok \/ ~rest.ok
            THEN [ok |-> FALSE, internal_links |-> {}, updated_html |-> << >>]
            ELSE [ok |-> TRUE,
                  internal_links |-> a.links \cup rest.internal_links,
                  updated_html |-> <<a.href>> \o rest.updated_html]
    IN  IF anchors = << >>
        THEN [ok |-> TRUE, internal_links |-> {}, updated_html |-> << >>]
        ELSE combine(process_anchor(base, Head(anchors)),
                     parse_and_extract(base, Tail(anchors)))

----------------------------------------------------------------------------
(* What the network and the libraries may answer.                          *)

\* The hrefs the documents of the model are written with.
H_ROOT  == <<"/", "2", "/", "the-omarchy-manual">>
H_A     == <<"/", "2", "/", "the-omarchy-manual", "/", "a", "/", "install">>
H_B     == <<"/", "2", "/", "the-omarchy-manual", "/", "b", "/", "install">>
H_C     == <<"/", "2", "/", "The-Omarchy-Manual", "/", "setup">>
H_D     == <<"/", "?", "the-omarchy-manual">>
H_EXT   == <<"https:", "/", "/", "other.test", "/", "x">>
H_ABOUT == <<"/", "about">>
H_BAD   == <<"/", "/", "[", "the-omarchy-manual">>

Hrefs == {H_ROOT, H_A, H_B, H_C, H_D, H_EXT, H_ABOUT, H_BAD}

\* All sequences over S of length at most n.
SeqsUpTo(S, n) == UNION {[1..k -> S] : k \in 0..n}

SeedDocuments == SeqsUpTo(Hrefs, MaxAnchors)

PageDocuments == SeqsUpTo(Hrefs, MaxPageAnchors)

\* What download_page_content returns: None after any exception of the
\* request (line 87), or the response text (line 84), which may be "".
NoContent == [status |-> "none", anchors |-> << >>]

EmptyText == [status |-> "empty", anchors |-> << >>]

Html(anchors) == [status |-> "html", anchors |-> anchors]

FetchOutcomes(documents) == {NoContent, EmptyText} \cup {Html(d) : d \in documents}

\* What the discovery fetch may return.
SeedFetchOutcomes == FetchOutcomes(SeedDocuments)

\* What readabilipy, markdownify and the file system do for one page.
Behaviours ==
    {"extract_raises", "extract_empty", "convert_raises", "convert_empty",
     "open_raises", "write_raises", "ok"}

ERROR_MARKER == <<"<error>Page failed to be simplified from HTML</error>">>

MARKDOWN == <<"markdown">>

BASE_URL == <<"https:", "/", "/", "learn.omacom.io", "/", "2", "/", "the-omarchy-manual">>

\* A seed that is not the manual's root.
DOCS_URL == <<"https:", "/", "/", "learn.omacom.io", "/", "docs">>

\* The seed URLs download() is called with.
Seeds == {BASE_URL, DOCS_URL}

\* The output directory before the run: absent, or holding earlier files.
OLD == <<"old">>

InitialDirs ==
    {[exists |-> FALSE, files |-> {}],
     [exists |-> TRUE,
      files |-> {[name |-> <<"leftover", ".md">>, by |-> OLD],
                 [name |-> TOC_MD, by |-> OLD]}]}

----------------------------------------------------------------------------
(* The Page Pipeline and link discovery, as functions of what the network  *)
(* and the libraries answer.                                               *)

\* An exception object, as gather(return_exceptions=True) would collect it.
Exc == [kind |-> "exc", val |-> << >>]

\* Caught, were the except clause of lines 123-125 to print and raise again:
\* the exception leaves download_page.
Caught_propagates(created, name) ==
    [result |-> Exc, created |-> created, name |-> name, line |-> "error_processing"]

\* The outcome of the try block of download_page that ends in the except
\* clause of lines 123-125; created tells whether open() had made the file.
Caught(created, name) ==
    [result |-> None, created |-> created, name |-> name, line |-> "error_processing"]

\* download_page (lines 90-125) for the content download_page_content
\* returned and the behaviour lib of the libraries: the result returned, whether
\* the file name was created or overwritten, and the line printed by
\* download_page itself ("none" when it prints nothing).
download_page(url, content, lib) ==
    LET persist(name) ==
            CASE lib = "extract_raises" -> Caught(FALSE, name)
              [] lib = "extract_empty"  ->
                   [result |-> Some(ERROR_MARKER), created |-> FALSE,
                    name |-> name, line |-> "none"]
              [] lib = "convert_raises" -> Caught(FALSE, name)
              [] lib = "open_raises"    -> Caught(FALSE, name)
              [] lib = "write_raises"   -> Caught(TRUE, name)
              [] lib = "convert_empty"  ->
                   [result |-> Some(<< >>), created |-> TRUE,
                    name |-> name, line |-> "downloaded"]
              [] OTHER ->
                   [result |-> Some(MARKDOWN), created |-> TRUE,
                    name |-> name, line |-> "downloaded"]
        process(page_data, filename) ==
            IF ~page_data.ok \/ ~filename.ok THEN Caught(FALSE, << >>)
            ELSE IF ~Truthy(filename.file)
                 THEN [result |-> None, created |-> FALSE, name |-> << >>,
                       line |-> "no_filename"]
            ELSE persist(filename.file.val)
    IN  IF content.status # "html"
        THEN [result |-> None, created |-> FALSE, name |-> << >>, line |-> "none"]
        ELSE process(parse_and_extract(url, content.anchors),
                     convert_url_to_filename(url))

\* find_documentation_links, were the test of lines 131-132 missing: the
\* parse of a fetch that returned no content raises.
find_documentation_links_unguarded(url, content) ==
    LET found(page_data) == [ok |-> page_data.ok, links |-> page_data.internal_links]
    IN  IF content.status = "none" THEN [ok |-> FALSE, links |-> {}]
        ELSE found(parse_and_extract(url, content.anchors))

\* find_documentation_links (lines 128-138): ok = FALSE when parse_and_extract
\* raises, which nothing in it catches.
find_documentation_links(url, content) ==
    LET found(page_data) == [ok |-> page_data.ok, links |-> page_data.internal_links]
    IN  IF content.status # "html" THEN [ok |-> TRUE, links |-> {}]
        ELSE found(parse_and_extract(url, content.anchors))

\* reset_output_dir, were the directory only made (mkdir, exist_ok=True).
reset_output_dir_keep(exists, fs) == IF exists THEN fs ELSE {}

\* Lines 150-152: rmtree when the directory exists, then mkdir.
reset_output_dir(exists, fs) == {}

\* A set as a list, in the order iteration happens to take.
RECURSIVE SetToSeq(_)
SetToSeq(S) ==
    IF S = {} THEN << >>
    ELSE LET x == CHOOSE y \in S : TRUE
         IN  <<x>> \o SetToSeq(S \ {x})

\* PageSet, were the seed left out.
PageSet_links_only(seed, lnks) == lnks

\* Line 171: all_pages = {base_url} | links.
PageSet(seed, lnks) == {seed} \cup lnks

\* TaskList, were one page scheduled a second time.
TaskList_twice(pages) == SetToSeq(pages) \o <<CHOOSE u \in pages : TRUE>>

\* Line 185: one coroutine per element of all_pages.
TaskList(pages) == SetToSeq(pages)

\* page_semaphore_init, were the semaphore sized by the global limit.
page_semaphore_global == MAX_CONCURRENT_CONNECTIONS

\* Line 177: the initial value of page_semaphore.
page_semaphore_init == MAX_CONNECTIONS_PER_HOST

\* GatherReady, were download() to wait for the first task only.
GatherReady_first(pcs) == \E i \in DOMAIN pcs : pcs[i] = "done"

\* Line 186: gather(*tasks, return_exceptions=True) returns when every task
\* has finished, whatever each returned or raised.
GatherReady(pcs) == \A i \in DOMAIN pcs : pcs[i] = "done"

\* Line 200: the file the summary tells the user to open.
SUMMARY_ENTRY_POINT == TOC_MD

\* release, were the slot kept.
release_never(slots) == slots

\* Line 180: leaving "async with page_semaphore" gives the slot back,
\* whether download_page returned or raised.
release(slots) == slots + 1

\* after_fetch, were a pipeline whose fetch failed to queue for another try.
after_fetch_retry(status) == IF status = "none" THEN "waiting" ELSE "done"

\* Lines 92-94 and 181: a task ends when download_page returns, also when
\* its one fetch gave no content.
after_fetch(status) == "done"

\* session_after_discovery, were the session closed once discovery is over.
session_after_discovery_closed(raised) == FALSE

\* Lines 167-170: the session stays open after find_documentation_links
\* unless an exception leaves the "async with" block.
session_after_discovery(raised) == ~raised

\* CountFailed, were only the exceptions among the results counted.
CountFailed_exceptions(rs, ok) == Cardinality({i \in DOMAIN rs : rs[i].kind = "exc"})

\* Line 190: failed = len(results) - successful.
CountFailed(rs, ok) == Len(rs) - ok

\* CountsAsSuccess, were every result that is no exception counted.
CountsAsSuccess_not_exception(result) == result.kind # "exc"

\* Line 189: isinstance(result, str) and result.
CountsAsSuccess(result) == Truthy(result)

----------------------------------------------------------------------------
(* The crawl run.                                                          *)

VARIABLES
    orch,          \* download(): Init, Discovering, Discovered, Fetching, Done, Raised
    base_url,      \* the seed URL given to download()
    dir_before,    \* the output directory as it was before the run (history)
    dir_exists,    \* whether the output directory exists
    files,         \* the files of the output directory: name and last writer
    session_open,  \* whether the aiohttp session is open
    html_content,  \* what the discovery fetch returned, until the tasks start
    seed_fetched,  \* what kind of answer the discovery fetch returned (history)
    links,         \* download(): the discovered links
    all_pages,     \* download(): the Page Set
    tasks,         \* the url of each task of line 185
    pc,            \* each task: waiting (for a slot), fetching, done
    results,       \* each task's result, once done
    fetched,       \* each task: what download_page_content returned (history)
    printed,       \* each task: the line download_page printed (history)
    wrote,         \* each task: the file it opened for writing, if any (history)
    sem,           \* the value of page_semaphore
    successful,    \* line 189
    failed,        \* line 190
    call           \* one call of a function on its own, outside a crawl run

vars == <<orch, base_url, dir_before, dir_exists, files, session_open, html_content,
          seed_fetched, links, all_pages, tasks, pc, results, fetched, printed, wrote, sem,
          successful, failed, call>>

\* No function is being called on its own.
NoCall == [fn |-> "none", stage |-> "idle", base |-> << >>, arg |-> << >>,
           out |-> << >>, again |-> << >>]

Pending == [kind |-> "pending", val |-> << >>]

\* download() is called.
CrawlInit ==
    /\ orch = "Init"
    /\ base_url \in Seeds
    /\ dir_before \in InitialDirs
    /\ dir_exists = dir_before.exists
    /\ files = dir_before.files
    /\ session_open = FALSE
    /\ html_content = NoContent
    /\ seed_fetched = "pending"
    /\ links = {}
    /\ all_pages = {}
    /\ tasks = << >>
    /\ pc = << >>
    /\ results = << >>
    /\ fetched = << >>
    /\ printed = << >>
    /\ wrote = << >>
    /\ sem = 0
    /\ successful = 0
    /\ failed = 0

Init == CrawlInit /\ call = NoCall

\* Lines 147-170, up to the first await: the directory is removed and made
\* again, the session opened, the discovery request issued.
Start ==
    /\ orch = "Init"
    /\ orch' = "Discovering"
    /\ files' = reset_output_dir(dir_exists, files)
    /\ dir_exists' = TRUE
    /\ session_open' = TRUE
    /\ UNCHANGED <<call, seed_fetched, base_url, dir_before, html_content, links, all_pages, tasks, pc,
                   results, fetched, printed, wrote, sem, successful, failed>>

\* The discovery fetch returns, find_documentation_links runs to its return
\* (lines 130-138) and download() computes the Page Set (lines 170-173); an
\* exception of find_documentation_links leaves download() through the
\* async with of line 167, which closes the session.
DiscoveryReturns ==
    /\ orch = "Discovering"
    /\ html_content' \in SeedFetchOutcomes
    /\ seed_fetched' = html_content'.status
    /\ \E found \in {find_documentation_links(base_url, html_content')} :
         IF found.ok
         THEN /\ orch' = "Discovered"
              /\ links' = found.links
              /\ all_pages' = PageSet(base_url, links')
              /\ session_open' = session_after_discovery(FALSE)
         ELSE /\ orch' = "Raised"
              /\ links' = {}
              /\ all_pages' = {}
              /\ session_open' = session_after_discovery(TRUE)
    /\ UNCHANGED <<call, base_url, dir_before, dir_exists, files, tasks, pc,
                   results, fetched, printed, wrote, sem, successful, failed>>

\* Lines 175-186: the semaphore, one task per page of the Page Set, gather.
Launch ==
    /\ orch = "Discovered"
    /\ orch' = "Fetching"
    /\ tasks' = TaskList(all_pages)
    /\ pc' = [i \in 1..Len(tasks') |-> "waiting"]
    /\ results' = [i \in 1..Len(tasks') |-> Pending]
    /\ fetched' = [i \in 1..Len(tasks') |-> "pending"]
    /\ printed' = [i \in 1..Len(tasks') |-> "none"]
    /\ wrote' = [i \in 1..Len(tasks') |-> None]
    /\ sem' = page_semaphore_init
    /\ html_content' = NoContent
    /\ UNCHANGED <<call, seed_fetched, base_url, dir_before, dir_exists, files, session_open, links,
                   all_pages, successful, failed>>

\* Lines 180-181 and 92: a task takes a slot of page_semaphore and issues
\* its request.
Acquire(i) ==
    /\ orch = "Fetching"
    /\ pc[i] = "waiting"
    /\ sem > 0
    /\ sem' = sem - 1
    /\ pc' = [pc EXCEPT ![i] = "fetching"]
    /\ UNCHANGED <<call, seed_fetched, orch, base_url, dir_before, dir_exists, files, session_open,
                   html_content, links, all_pages, tasks, results, fetched, printed,
                   wrote, successful, failed>>

\* Every way one run of the pipeline for url can go: what the fetch returned
\* and what download_page made of it, over all answers of the network and
\* the libraries.
PipelineRuns(url) ==
    {[fetched |-> content.status, out |-> download_page(url, content, lib)] :
        content \in FetchOutcomes(PageDocuments), lib \in Behaviours}

\* The URLs a task can be given: a seed, or a link of a seed's page.
PageUrls ==
    Seeds \cup UNION {process_anchor(seed, href).links : seed \in Seeds, href \in Hrefs}

\* PipelineRuns, tabulated once for the URLs of the model (@@ makes the
\* table explicit).
PipelineRunsOf == [url \in PageUrls |-> PipelineRuns(url)] @@ << >>

\* WriteFile, were the directory emptied at each write.
WriteFile_fresh(fs, name, url) == {[name |-> name, by |-> url]}

\* The files of the directory after name is opened for writing by url.
WriteFile(fs, name, url) ==
    {f \in fs : f.name # name} \cup {[name |-> name, by |-> url]}

\* Lines 92-125 and 180-181: a task's request returns, download_page runs
\* to its return without another await, and the slot is released.
FetchReturns(i) ==
    /\ orch = "Fetching"
    /\ pc[i] = "fetching"
    /\ \E run \in PipelineRunsOf[tasks[i]] :
         /\ results' = [results EXCEPT ![i] = run.out.result]
         /\ fetched' = [fetched EXCEPT ![i] = run.fetched]
         /\ printed' = [printed EXCEPT ![i] = run.out.line]
         /\ wrote' = [wrote EXCEPT ![i] = IF run.out.created THEN Some(run.out.name) ELSE None]
         /\ files' = IF run.out.created THEN WriteFile(files, run.out.name, tasks[i])
                     ELSE files
         /\ pc' = [pc EXCEPT ![i] = after_fetch(run.fetched)]
    /\ sem' = release(sem)
    /\ UNCHANGED <<call, seed_fetched, orch, base_url, dir_before, dir_exists, session_open, html_content,
                   links, all_pages, tasks, successful, failed>>

\* Lines 186-200: gather returns, the results are counted, the session is
\* closed and the summary printed.
Aggregate ==
    /\ orch = "Fetching"
    /\ GatherReady(pc)
    /\ orch' = "Done"
    /\ successful' = Cardinality({i \in DOMAIN results : CountsAsSuccess(results[i])})
    /\ failed' = CountFailed(results, successful')
    /\ session_open' = FALSE
    /\ UNCHANGED <<call, seed_fetched, base_url, dir_before, dir_exists, files, html_content, links,
                   all_pages, tasks, pc, results, fetched, printed, wrote, sem>>

Next ==
    \/ Start
    \/ DiscoveryReturns
    \/ Launch
    \/ \E i \in DOMAIN pc : Acquire(i)
    \/ \E i \in DOMAIN pc : FetchReturns(i)
    \/ Aggregate

Spec == Init /\ [][Next]_vars

\* The run main() makes: download(BASE_URL, DOCS_DIR) (__init__.py line 9).
MainInit == Init /\ base_url = BASE_URL

MainSpec == MainInit /\ [][Next]_vars

\* The event loop runs whatever is ready to run, and every request ends
\* within the session's total timeout (line 161).
FairMainSpec == MainInit /\ [][Next]_vars /\ WF_vars(Next)

----------------------------------------------------------------------------
(* The Filename Mapper and the HTML Processor, each called on its own.     *)

crawl_vars == <<orch, base_url, dir_before, dir_exists, files, session_open,
                html_content, seed_fetched, links, all_pages, tasks, pc, results,
                fetched, printed, wrote, sem, successful, failed>>

H_MANUAL == <<"/", "the-omarchy-manual">>

\* The URLs convert_url_to_filename is called with.
MapperUrls ==
    Seeds \cup Hrefs \cup
    {<< >>, <<"/">>, <<"/", ".">>, H_MANUAL, TOC_MD,
     BASE_URL \o <<"/">>, BASE_URL \o <<"?", "q", "#", "f">>,
     H_ROOT \o <<"/", ".">>, H_A \o <<"/", ".">>, H_A \o <<"/", "..">>,
     <<"/">> \o H_A \o <<"/">>, <<"https:", "/", "/", "[", "x", "/", "a">>}

\* The hrefs of the documents parse_and_extract is called with.
ProcessorHrefs == Hrefs \cup {H_MANUAL}

ProcessorDocuments == SeqsUpTo(ProcessorHrefs, MaxProcessorAnchors)

\* The calls made: convert_url_to_filename(arg), or
\* HTMLProcessor(base).parse_and_extract(arg).
Calls ==
    {[fn |-> "convert_url_to_filename", stage |-> "called", base |-> << >>,
      arg |-> u, out |-> << >>, again |-> << >>] : u \in MapperUrls}
    \cup
    {[fn |-> "parse_and_extract", stage |-> "called", base |-> b,
      arg |-> d, out |-> << >>, again |-> << >>] : b \in Seeds, d \in ProcessorDocuments}

FunctionsInit ==
    /\ CrawlInit
    /\ base_url = BASE_URL
    /\ ~dir_before.exists
    /\ call \in Calls

\* convert_url_to_filename returns (lines 71-76).
MapperReturns ==
    /\ call.fn = "convert_url_to_filename"
    /\ call.stage = "called"
    /\ call' = [call EXCEPT !.stage = "returned",
                            !.out = convert_url_to_filename(call.arg)]
    /\ UNCHANGED crawl_vars

\* parse_and_extract returns (lines 39-51).
ProcessorReturns ==
    /\ call.fn = "parse_and_extract"
    /\ call.stage = "called"
    /\ call' = [call EXCEPT !.stage = "returned",
                            !.out = parse_and_extract(call.base, call.arg)]
    /\ UNCHANGED crawl_vars

\* parse_and_extract is called a second time, on the HTML the first call
\* returned, and returns.
ProcessorRunsAgain ==
    /\ call.fn = "parse_and_extract"
    /\ call.stage = "returned"
    /\ call.out.ok
    /\ call' = [call EXCEPT !.stage = "rerun",
                            !.again = parse_and_extract(call.base, call.out.updated_html)]
    /\ UNCHANGED crawl_vars

FunctionsNext == MapperReturns \/ ProcessorReturns \/ ProcessorRunsAgain

SpecFunctions == FunctionsInit /\ [][FunctionsNext]_vars

----------------------------------------------------------------------------
(* The claims.                                                             *)

InFlight == {i \in DOMAIN pc : pc[i] = "fetching"}

\* C1: at no point are more page pipelines in flight (holding a slot of
\* page_semaphore) than MAX_CONNECTIONS_PER_HOST, also when the Page Set is
\* larger than that.
C1_ConcurrencyCap == Cardinality(InFlight) <= MAX_CONNECTIONS_PER_HOST

\* C1's case: the cap is reached while another pipeline waits for a slot.
C1_Witness ==
    /\ Cardinality(InFlight) = MAX_CONNECTIONS_PER_HOST
    /\ \E i \in DOMAIN pc : pc[i] = "waiting"
    /\ Cardinality(all_pages) > MAX_CONNECTIONS_PER_HOST

\* C2: no failure terminates the run before the summary: download() never
\* ends by raising.
C2_NoFailureEndsTheRun == orch # "Raised"

\* C3: when the results are counted every pipeline of the Page Set has been
\* launched and has run to its end, whatever the others returned.
C3_AggregateAfterAll ==
    orch = "Done" =>
        /\ {tasks[i] : i \in DOMAIN tasks} = all_pages
        /\ \A i \in DOMAIN tasks :
              pc[i] = "done" /\ fetched[i] # "pending" /\ results[i] # Pending

\* C3's case: the run is done with a pipeline that failed and one that did not.
C3_Witness ==
    /\ orch = "Done"
    /\ \E i, j \in DOMAIN tasks : results[i] = None /\ results[j] = Some(MARKDOWN)

\* C4: a step in which a pipeline's processing raises gives that pipeline
\* the result None, leaves download() where it is and changes no other
\* pipeline's position or result.
C4_ExceptionContained ==
    [][\A i \in DOMAIN printed :
          (printed[i] # "error_processing" /\ printed'[i] = "error_processing") =>
              /\ results'[i] = None
              /\ pc'[i] = "done"
              /\ orch' = orch
              /\ \A j \in DOMAIN pc \ {i} :
                    pc'[j] = pc[j] /\ results'[j] = results[j]
                    /\ fetched'[j] = fetched[j] /\ wrote'[j] = wrote[j]]_vars

\* C4's case: a pipeline raised during processing, and the run went on to
\* its end with another pipeline's content written after it.
C4_Witness ==
    /\ orch = "Done"
    /\ \E i, j \in DOMAIN tasks :
          /\ printed[i] = "error_processing" /\ results[i] = None
          /\ results[j] = Some(MARKDOWN)
          /\ \E f \in files : f.by = tasks[j]

\* One pipeline per page of the Page Set.
OnePipelinePerPage ==
    /\ \A u \in all_pages : Cardinality({i \in DOMAIN tasks : tasks[i] = u}) = 1
    /\ \A i \in DOMAIN tasks : tasks[i] \in all_pages

\* C5: once the pipelines are launched the Page Set never changes, each of
\* its URLs has exactly one pipeline, and a pipeline never runs again; before
\* the Page Set is computed no pipeline exists.
C5_PageSetFixed ==
    [][/\ orch' \in {"Fetching", "Done"} => OnePipelinePerPage'
       /\ orch' \notin {"Fetching", "Done"} => tasks' = << >>
       /\ orch \in {"Discovered", "Fetching", "Done"} => all_pages' = all_pages
       /\ orch \in {"Fetching", "Done"} =>
             /\ tasks' = tasks
             /\ \A i \in DOMAIN pc :
                   /\ pc[i] = "done" => pc'[i] = "done"
                   /\ pc[i] = "fetching" => pc'[i] # "waiting"]_vars

\* C5's case: both pipelines of a Page Set of two pages have run to their
\* end and returned content, whatever links their documents held.
C5_Witness ==
    /\ orch = "Done"
    /\ Cardinality(all_pages) = 2
    /\ \A i \in DOMAIN tasks : results[i] = Some(MARKDOWN)

\* The internal-link set L of a seed page: the absolute URLs of the hrefs,
\* taken as a set, that satisfy the internal-link predicate.
InternalLinkSet(seed, anchors) ==
    {urljoin(seed, href).url :
        href \in {h \in {anchors[k] : k \in 1..Len(anchors)} : IsInternalHref(h)}}

\* C6: for a seed page with internal-link set L the Page Set is exactly
\* {seed} \cup L, whatever the order and the repetitions of its anchors.
C6_PageSetExact ==
    (orch = "Discovered" /\ html_content.status = "html") =>
        all_pages = {base_url} \cup InternalLinkSet(base_url, html_content.anchors)

\* C6's case: a seed page with a repeated internal href, an external anchor
\* and a second internal href gives a Page Set of three pages.
C6_Witness ==
    /\ orch = "Discovered"
    /\ html_content = Html(<<H_B, H_EXT, H_A, H_B>>)
    /\ all_pages = {base_url, urljoin(base_url, H_A).url, urljoin(base_url, H_B).url}

\* C7: after a run on a directory that held files, every file of the
\* directory was written by a pipeline of this run under the name the
\* Filename Mapper gives its URL, and no earlier file remains.
C7_OnlyThisRunsFiles ==
    (orch = "Done" /\ dir_before.exists /\ dir_before.files # {}) =>
        \A f \in files :
            /\ f \notin dir_before.files
            /\ f.by \in all_pages
            /\ convert_url_to_filename(f.by).file = Some(f.name)

\* C7's case: a run on a directory that held toc.md and another file has
\* ended with a toc.md of its own and a second file.
C7_Witness ==
    /\ orch = "Done"
    /\ dir_before.files # {}
    /\ [name |-> TOC_MD, by |-> base_url] \in files
    /\ Cardinality(files) >= 2

\* C8 as stated: no two pipelines of a run write the same file.
C8_DistinctFilenames ==
    \A i, j \in DOMAIN wrote : (i # j /\ wrote[i] # None) => wrote[i] # wrote[j]

\* The final segment of a URL's path, the manual root counting as "toc".
FinalSegment(url) ==
    LET stem(path) == IF path = MANUAL_ROOT_PATH THEN <<"toc">> ELSE PathName(path)
    IN  stem(StripSlashes(urlparse(url).path))

\* C8 as amended: a pipeline writes only the file the Filename Mapper gives
\* its URL, and two pipelines write the same file only when the paths of
\* their URLs end in the same segment.
C8_SameFileOnlyForSameSegment ==
    \A i, j \in DOMAIN wrote :
        (i # j /\ wrote[i] # None) =>
            /\ wrote[i] = convert_url_to_filename(tasks[i]).file
            /\ wrote[i] = wrote[j] => FinalSegment(tasks[i]) = FinalSegment(tasks[j])

\* C8's case: two pipelines have written the same file and a third another.
C8_Witness ==
    \E i, j, k \in DOMAIN wrote :
        /\ i # j /\ wrote[i] # None /\ wrote[i] = wrote[j]
        /\ wrote[k] # None /\ wrote[k] # wrote[i]

FetchFailed == {i \in DOMAIN fetched : fetched[i] = "none"}

\* C9: a pipeline whose fetch failed has the result None and has written no
\* file, and in the summary it is among the failures, not the successes.
C9_FetchFailureIsFailure ==
    /\ \A i \in FetchFailed :
          /\ results[i] = None
          /\ wrote[i] = None
          /\ \A f \in files : f.by # tasks[i]
    /\ orch = "Done" =>
          /\ failed >= Cardinality(FetchFailed)
          /\ successful <= Len(tasks) - Cardinality(FetchFailed)
          /\ successful + failed = Len(tasks)

\* C9's case: the run is done, one fetch failed and another page succeeded.
C9_Witness ==
    /\ orch = "Done"
    /\ FetchFailed # {}
    /\ \E j \in DOMAIN results : results[j] = Some(MARKDOWN)
    /\ successful >= 1

\* C10: a page whose extraction is empty has the error marker as its
\* result and no file, and only results that are page content are counted
\* as successes: the error marker is counted as a failure.
C10_MarkerCountsAsFailure ==
    /\ \A i \in DOMAIN results : results[i] = Some(ERROR_MARKER) => wrote[i] = None
    /\ orch = "Done" =>
          successful = Cardinality({i \in DOMAIN results :
                                       /\ results[i].kind = "str"
                                       /\ results[i].val \notin {<< >>, ERROR_MARKER}})

\* C11 as stated: after a discovery fetch that failed the run ends with no
\* success at all.
C11_ZeroSuccesses ==
    (seed_fetched = "none" /\ orch = "Done") => successful = 0

\* C11 as amended: after a discovery fetch that failed download() does not
\* raise, no link is discovered and the Page Set is the seed alone; its one
\* pipeline fetches the seed again, and the run ends with one outcome, which
\* is a failure whenever that second fetch failed too.
C11_SeedAloneAfterFailedDiscovery ==
    seed_fetched = "none" =>
        /\ orch # "Raised"
        /\ links = {} /\ all_pages = {base_url}
        /\ orch \in {"Fetching", "Done"} => tasks = <<base_url>>
        /\ orch = "Done" =>
              /\ successful + failed = 1
              /\ fetched[1] = "none" => successful = 0 /\ failed = 1

\* C11's case: the discovery fetch failed, the seed's own fetch failed as
\* well, and the run ended with no success.
C11_Witness ==
    /\ seed_fetched = "none" /\ orch = "Done"
    /\ fetched = <<"none">> /\ successful = 0 /\ failed = 1

\* C12: whatever seed download() is given, the file a run writes for the
\* seed page is toc.md, the file the summary tells the user to open.
C12_SeedFileIsEntryPoint ==
    \A i \in DOMAIN tasks :
        (tasks[i] = base_url /\ wrote[i] # None) =>
            wrote[i] = Some(TOC_MD) /\ wrote[i] = Some(SUMMARY_ENTRY_POINT)

MapperReturned == call.fn = "convert_url_to_filename" /\ call.stage = "returned"

\* The path of the URL the mapper was called with, stripped of slashes.
MapperPath == StripSlashes(urlparse(call.arg).path)

\* C13 as stated: the mapper returns for every URL; toc.md for the manual
\* root, None for an empty path and otherwise what follows the last "/" of
\* the stripped path, plus ".md".
C13_TotalLastSegment ==
    MapperReturned =>
        /\ call.out.ok
        /\ call.out.file =
              IF MapperPath = << >> THEN None
              ELSE IF MapperPath = MANUAL_ROOT_PATH THEN Some(TOC_MD)
              ELSE Some(Drop(MapperPath, LastIn(MapperPath, {"/"}) + 1) \o <<".md">>)

\* The last segment of the stripped path that is not ".", "" when there is
\* none.
LastNamedSegment ==
    LET starts == {i \in 0..Len(MapperPath) : i = 0 \/ MapperPath[i] = "/"}
        segment(i) ==
            SubSeq(MapperPath, i + 1, i + FirstIn(Drop(MapperPath, i + 1), {"/"}) - 1)
        named == {i \in starts : segment(i) \notin {<< >>, <<".">>}}
    IN  IF named = {} THEN << >>
        ELSE segment(CHOOSE i \in named : \A j \in named : j <= i)

\* C13 as amended: the mapper raises exactly for the URLs urlparse rejects;
\* for every other URL it returns toc.md for the manual root, None for an
\* empty path and otherwise the last segment that is not "." plus ".md".
C13_MapperOfAcceptedUrl ==
    MapperReturned =>
        /\ call.out.ok <=> urlparse(call.arg).ok
        /\ call.out.ok =>
              call.out.file =
                  IF MapperPath = << >> THEN None
                  ELSE IF MapperPath = MANUAL_ROOT_PATH THEN Some(TOC_MD)
                  ELSE Some(LastNamedSegment \o <<".md">>)

\* C13's case: the mapper has returned for a path that ends in a "." segment
\* after the manual root.
C13_Witness ==
    /\ MapperReturned
    /\ call.arg = H_ROOT \o <<"/", ".">>
    /\ call.out.file = Some(<<"the-omarchy-manual", ".md">>)

\* parse_and_extract was called on its own and has returned its PageData.
ProcessorReturned ==
    call.fn = "parse_and_extract" /\ call.stage \in {"returned", "rerun"} /\ call.out.ok

\* The internal-link predicate, as the claims word it.
StartsWithSlashAndNamesManual(href) ==
    /\ href # << >> /\ Head(href) = "/"
    /\ \E k \in 1..Len(href) : href[k] \in {"the-omarchy-manual", "The-Omarchy-Manual"}

\* C14: when parse_and_extract has returned, every href of the document
\* that satisfies the internal-link predicate is in the discovered-link set
\* as its absolute URL against the base, and stands in the output HTML as the
\* filename the Filename Mapper gives for it, or as it was when the mapper
\* gives none; every other href stands as it was.
C14_LinkedAndRewritten ==
    ProcessorReturned =>
        /\ Len(call.out.updated_html) = Len(call.arg)
        /\ \A k \in 1..Len(call.arg) :
              IF StartsWithSlashAndNamesManual(call.arg[k])
              THEN /\ urljoin(call.base, call.arg[k]).url \in call.out.internal_links
                   /\ call.out.updated_html[k] =
                         IF Truthy(convert_url_to_filename(call.arg[k]).file)
                         THEN convert_url_to_filename(call.arg[k]).file.val
                         ELSE call.arg[k]
              ELSE call.out.updated_html[k] = call.arg[k]

\* C14's case: a document with an internal href the mapper names and one it
\* gives no filename for has been processed.
C14_Witness ==
    /\ ProcessorReturned
    /\ call.arg = <<H_A, H_D>>
    /\ call.out.updated_html = <<<<"install", ".md">>, H_D>>
    /\ Cardinality(call.out.internal_links) = 2

\* C15: when parse_and_extract has run a second time, on the HTML its first
\* run returned, every href the first run rewrote stands as the first run
\* left it, and every link the second run discovered comes from an href the
\* first run left as it was.
C15_RewriteIdempotent ==
    (call.fn = "parse_and_extract" /\ call.stage = "rerun") =>
        /\ call.again.ok
        /\ \A k \in 1..Len(call.arg) :
              call.out.updated_html[k] # call.arg[k] =>
                  call.again.updated_html[k] = call.out.updated_html[k]
        /\ call.again.internal_links \subseteq
              {urljoin(call.base, call.arg[k]).url :
                  k \in {n \in 1..Len(call.arg) : call.out.updated_html[n] = call.arg[n]}}

\* C15's case: the second run has met a rewritten href that still names the
\* manual, and an internal href the first run could not rewrite.
C15_Witness ==
    /\ call.fn = "parse_and_extract" /\ call.stage = "rerun"
    /\ call.arg = <<H_MANUAL, H_D>>
    /\ call.again.updated_html = <<<<"the-omarchy-manual", ".md">>, H_D>>
    /\ call.again.internal_links = {urljoin(call.base, H_D).url}

\* C16: the directory is removed and made again in the step that starts the
\* run, when no pipeline exists and nothing of this run is written; every
\* write happens after that step; and from then on no step removes a file
\* from the directory.
C16_ResetBeforeAnyWrite ==
    [][/\ (orch = "Init" /\ orch' # "Init") =>
             /\ tasks = << >> /\ wrote = << >>
             /\ \A f \in files : f.by = OLD
             /\ files' = {} /\ dir_exists'
       /\ (\E i \in DOMAIN wrote' :
              wrote'[i] # None /\ (i \notin DOMAIN wrote \/ wrote[i] = None)) =>
             orch = "Fetching"
       /\ (orch # "Init" /\ files' # files) =>
             /\ orch = "Fetching"
             /\ \A f \in files : \E g \in files' : g.name = f.name]_vars

\* C16's case: a run on a directory that held files has ended with two
\* files written by its pipelines, both still there.
C16_Witness ==
    /\ orch = "Done" /\ dir_before.files # {}
    /\ \E i, j \in DOMAIN wrote :
          /\ wrote[i] # None /\ wrote[j] # None /\ wrote[i] # wrote[j]
          /\ \A k \in {i, j} : \E f \in files : f.name = wrote[k].val /\ f.by = tasks[k]

\* C17: a pipeline that is running holds one slot of the semaphore, so the
\* free slots and the running pipelines make MAX_CONNECTIONS_PER_HOST; a
\* pipeline runs only after it waited and took a slot, and ends only after
\* it ran, giving its slot back whatever its outcome; and once the pipelines
\* are started the run comes to the point where every one of them, so every
\* one that waited for a slot, has run and ended and all slots are free.
C17_SlotsHeldAndReturned ==
    /\ [](orch \in {"Fetching", "Done"} =>
              /\ sem >= 0
              /\ sem + Cardinality(InFlight) = MAX_CONNECTIONS_PER_HOST)
    /\ [][\A i \in DOMAIN pc :
              (i \in DOMAIN pc' /\ pc'[i] # pc[i]) =>
                  \/ pc[i] = "waiting" /\ pc'[i] = "fetching" /\ sem' = sem - 1
                  \/ pc[i] = "fetching" /\ pc'[i] = "done" /\ sem' = sem + 1]_vars
    /\ (orch = "Fetching")
          ~> (orch = "Done" /\ GatherReady(pc) /\ sem = MAX_CONNECTIONS_PER_HOST)

\* C17's case: the run is done after more pipelines than there are slots,
\* with every kind of outcome among them, and all slots are free.
C17_Witness ==
    /\ orch = "Done"
    /\ Len(tasks) > MAX_CONNECTIONS_PER_HOST
    /\ sem = MAX_CONNECTIONS_PER_HOST
    /\ \E i, j, k \in DOMAIN results :
          /\ results[i] = Some(MARKDOWN)
          /\ results[j] = Some(ERROR_MARKER)
          /\ results[k] = None /\ fetched[k] = "none"

\* A step in which task i issues its request.
Issues(i) == pc[i] = "waiting" /\ pc'[i] = "fetching"

\* C18 as stated: no request is issued for a URL of which a fetch has failed
\* earlier in the run.
C18_NoFetchAfterFailure ==
    [][\A i \in DOMAIN pc :
          (i \in DOMAIN pc' /\ Issues(i)) =>
              /\ ~(tasks[i] = base_url /\ seed_fetched = "none")
              /\ \A j \in DOMAIN tasks : tasks[j] = tasks[i] => fetched[j] # "none"]_vars

\* C18 as amended: a pipeline issues one request in its life, for a URL no
\* pipeline has fetched before, and a pipeline that has ended stays ended;
\* so the one earlier fetch of a URL a pipeline requests is the discovery
\* fetch of the seed, failed or not.
C18_OneFetchPerPipeline ==
    [][\A i \in DOMAIN pc :
          i \in DOMAIN pc' =>
              /\ Issues(i) =>
                    /\ fetched[i] = "pending"
                    /\ \A j \in DOMAIN tasks \ {i} : tasks[j] # tasks[i]
              /\ pc[i] = "fetching" => pc'[i] \in {"fetching", "done"}
              /\ pc[i] = "done" => pc'[i] = "done"]_vars

\* C18's case: the discovery fetch failed, the seed's pipeline fetched the
\* seed again, that fetch failed too, and the run ended there.
C18_Witness ==
    /\ orch = "Done" /\ seed_fetched = "none"
    /\ tasks = <<base_url>> /\ fetched = <<"none">> /\ pc = <<"done">>

\* C19: when the results are counted there is one task and one outcome for
\* each URL of the Page Set, and the two counts are natural numbers whose
\* sum is the size of the Page Set.
C19_OneOutcomePerPage ==
    orch = "Done" =>
        /\ Len(tasks) = Cardinality(all_pages)
        /\ \A u \in all_pages : Cardinality({i \in DOMAIN tasks : tasks[i] = u}) = 1
        /\ DOMAIN results = DOMAIN tasks
        /\ \A i \in DOMAIN results : results[i] # Pending
        /\ successful \in Nat /\ failed \in Nat
        /\ successful + failed = Cardinality(all_pages)

\* C19's case: a run of three pages has ended with two successes and a
\* failure.
C19_Witness ==
    /\ orch = "Done"
    /\ Cardinality(all_pages) = 3
    /\ successful = 2 /\ failed = 1

====
